---- MODULE Spec2Model ----
(***************************************************************************)
(* Model of the Gemini document analyzer: the Streamlit front end          *)
(* (src/app.py) and the console script (src/analyze_docs.py).              *)
(*                                                                         *)
(* Python strings are sequences of pieces; their concatenation is the      *)
(* string.  Text that the code inspects character by character (file       *)
(* contents, result texts) is a sequence of one-character strings, fixed   *)
(* literals of f-strings are single pieces.                                *)
(***************************************************************************)
EXTENDS Integers, Sequences, FiniteSets, TLC

\* ------------------------------------------------------------------ bounds
MaxDocs == 2        \* uploaded documents per UI run
MaxPaths == 2       \* document paths typed into the console script
MaxSegs == 3        \* segments of a generated checklist text

VARIABLES
  \* ---- src/app.py, one script run
  pc, secrets, env_key, user_api_key, system_api_key, api_key,
  template_file, checklist_file, doc_files, docs_contents,
  ui, stats, calls, reads,
  \* ---- src/analyze_docs.py, one process run
  cli_pc, cli_env, template_path, doc_paths, output_path, valid_docs,
  fs, out, cli_prompt, cli_calls, cli_reads, crashed,
  \* ---- filename derivation on its own
  text, company_name, filename, name_pc

app_vars == <<pc, secrets, env_key, user_api_key, system_api_key, api_key,
              template_file, checklist_file, doc_files, docs_contents,
              ui, stats, calls, reads>>
cli_vars == <<cli_pc, cli_env, template_path, doc_paths, output_path,
              valid_docs, fs, out, cli_prompt, cli_calls, cli_reads, crashed>>
name_vars == <<text, company_name, filename, name_pc>>
vars == <<app_vars, cli_vars, name_vars>>

\* ------------------------------------------------------------ sequences
RECURSIVE Flatten(_)
Flatten(ss) == IF ss = <<>> THEN <<>> ELSE Head(ss) \o Flatten(Tail(ss))

RECURSIVE SeqsUpTo(_, _)
SeqsUpTo(S, n) ==
  IF n = 0 THEN {<<>>}
  ELSE LET shorter == SeqsUpTo(S, n - 1)
       IN shorter \cup {Append(s, x) : s \in {t \in shorter : Len(t) = n - 1}, x \in S}

\* Python's None for an optional string / object
None == "<None>"

\* ------------------------------------------------------------ characters
NL == "\n"
\* Characters are those of U+0001..U+00FF.
\* str.isspace(): what \s of re and str.strip() take as whitespace
Whitespace == {
  "\t","\n","","\f","\r","","","",""," ",""," " }
\* the letters and the digits of str.isalnum()
Letters == {
  "A","B","C","D","E","F","G","H","I","J","K","L","M","N","O","P","Q","R",
  "S","T","U","V","W","X","Y","Z","a","b","c","d","e","f","g","h","i","j",
  "k","l","m","n","o","p","q","r","s","t","u","v","w","x","y","z","ª","µ",
  "º","À","Á","Â","Ã","Ä","Å","Æ","Ç","È","É","Ê","Ë","Ì","Í","Î","Ï","Ð",
  "Ñ","Ò","Ó","Ô","Õ","Ö","Ø","Ù","Ú","Û","Ü","Ý","Þ","ß","à","á","â","ã",
  "ä","å","æ","ç","è","é","ê","ë","ì","í","î","ï","ð","ñ","ò","ó","ô","õ",
  "ö","ø","ù","ú","û","ü","ý","þ","ÿ" }
Digits == {
  "0","1","2","3","4","5","6","7","8","9","²","³","¹","¼","½","¾" }

\* str.isalnum() on one character
isalnum(c) == c \in Letters \cup Digits

\* case folding used by re.IGNORECASE, on the letters of the label
lower(c) ==
  CASE c = "C" -> "c" [] c = "O" -> "o" [] c = "M" -> "m" [] c = "P" -> "p"
    [] c = "A" -> "a" [] c = "N" -> "n" [] c = "Y" -> "y" [] c = "E" -> "e"
    [] OTHER -> c

\* str.strip(): drop leading and trailing whitespace
RECURSIVE lstrip(_, _)
lstrip(s, drop) ==
  IF s # <<>> /\ Head(s) \in drop THEN lstrip(Tail(s), drop) ELSE s
RECURSIVE rstrip(_, _)
rstrip(s, drop) ==
  IF s # <<>> /\ s[Len(s)] \in drop THEN rstrip(SubSeq(s, 1, Len(s) - 1), drop) ELSE s
strip(s, drop) == rstrip(lstrip(s, drop), drop)

\* ======================================================================
\*                     src/app.py : the Streamlit front end
\* ======================================================================

\* ---- uploaded files.  bytes: the raw text of a text upload; pages: the
\* ---- page texts of a PDF; ok = FALSE: decoding / PdfReader raises.
PdfType == "application/pdf"
TextType == "text/plain"

Upload(name, type, ok, bytes, pages) ==
  [name |-> name, type |-> type, ok |-> ok, bytes |-> bytes, pages |-> pages]

NoFile == Upload(None, None, FALSE, <<>>, <<>>)

DocPool ==
  { Upload("a.txt", TextType, TRUE, <<"X">>, <<>>),
    Upload("b.txt", TextType, TRUE, <<"Y">>, <<>>),
    Upload("a.txt", TextType, TRUE, <<"Z">>, <<>>),
    Upload("e.txt", TextType, TRUE, <<>>, <<>>),
    Upload("bad.txt", TextType, FALSE, <<>>, <<>>),
    Upload("s.pdf", PdfType, TRUE, <<>>, << <<"P">>, <<>> >>) }

TemplatePool ==
  { NoFile,
    Upload("t.txt", TextType, TRUE, <<"T">>, <<>>),
    Upload("t.pdf", PdfType, FALSE, <<>>, <<>>) }

ChecklistPool ==
  { NoFile,
    Upload("k.txt", TextType, TRUE, <<"K">>, <<>>),
    Upload("k.txt", TextType, FALSE, <<>>, <<>>) }

\* ---- UI elements written by st.error / st.warning / st.success / ...
Elem(kind, body, file_name) == [kind |-> kind, body |-> body, file_name |-> file_name]
Msg(kind, body) == Elem(kind, body, None)

\* ---- read_file_content: the text, or None after an st.error
Content(is_none, txt) == [is_none |-> is_none, txt |-> txt]

RECURSIVE pdf_text(_)
pdf_text(pages) ==
  IF pages = <<>> THEN <<>>
  ELSE Head(pages) \o <<NL>> \o pdf_text(Tail(pages))

read_file_content(uploaded_file) ==
  IF ~uploaded_file.ok THEN Content(TRUE, <<>>)
  ELSE IF uploaded_file.type = PdfType
       THEN Content(FALSE, pdf_text(uploaded_file.pages))
       ELSE Content(FALSE, uploaded_file.bytes)

\* what read_file_content writes to the page
read_file_errors(uploaded_file) ==
  IF ~uploaded_file.ok
  THEN << Msg("error", <<"Error reading ", uploaded_file.name, ": ", "e">>) >>
  ELSE <<>>

\* Python truthiness of "content": neither None nor the empty string
truthy(content) == ~content.is_none /\ content.txt # <<>>

\* ---- docs_contents: an insertion-ordered dict, docs_contents[name] = content
dict_set(d, key, value) ==
  IF \E i \in 1..Len(d) : d[i].key = key
  THEN [i \in 1..Len(d) |-> IF d[i].key = key THEN [key |-> key, value |-> value] ELSE d[i]]
  ELSE Append(d, [key |-> key, value |-> value])

RECURSIVE read_docs(_, _)
read_docs(files, d) ==
  IF files = <<>> THEN d
  ELSE LET content == read_file_content(Head(files))
       IN read_docs(Tail(files),
                    IF truthy(content) THEN dict_set(d, Head(files).name, content.txt) ELSE d)

RECURSIVE read_docs_errors(_)
read_docs_errors(files) ==
  IF files = <<>> THEN <<>>
  ELSE read_file_errors(Head(files)) \o read_docs_errors(Tail(files))

\* ---- the prompt of analyze_documents
DocOpen == "\n--- Document ("
DocClose == ") ---\n"

RECURSIVE combined_docs(_)
combined_docs(d) ==
  IF d = <<>> THEN <<>>
  ELSE <<DocOpen, Head(d).key, DocClose>> \o Head(d).value \o <<NL>>
       \o combined_docs(Tail(d))

RoleBase == "You are a helpful assistant that analyzes documents."
RoleChecklist == " Your goal is to complete the provided checklist based on the documents. Ensure you fill in the 'Company name' field if present."
InstructionLabel == "\n\n    Here is the template/checklist you must follow for the output:\n    "
DocsLabel == "\n\n    Here are the documents to analyze:\n    "
Closing == "\n\n    Please analyze the documents and produce an output that strictly follows the format and structure of the provided template/checklist.\n    "

role_instruction(is_checklist) ==
  IF is_checklist THEN <<RoleBase, RoleChecklist>> ELSE <<RoleBase>>

build_prompt(instruction_content, d, is_checklist) ==
  <<"\n    ">> \o role_instruction(is_checklist) \o <<InstructionLabel>>
  \o instruction_content \o <<DocsLabel>> \o combined_docs(d) \o <<Closing>>

\* ---- the external service: where the call fails, and what it answers
FailSteps == {"configure", "model", "generate", "text"}
Outcomes == FailSteps \cup {"ok"}

\* usage_metadata; is_none: Python's None
Usage(p, c) == [is_none |-> FALSE, prompt_token_count |-> p,
                candidates_token_count |-> c, total_token_count |-> p + c]
NoUsage == [is_none |-> TRUE, prompt_token_count |-> 0,
            candidates_token_count |-> 0, total_token_count |-> 0]
UsagePool == { Usage(1000000, 1000000), Usage(1205, 8) }

ErrPrefix == <<"E","r","r","o","r"," ","d","u","r","i","n","g"," ",
               "a","n","a","l","y","s","i","s",":"," ">>
ExcMessages == { <<>>, <<"q","u","o","t","a">> }

\* analyze_documents: the returned pair, or the exception that escapes
Returned(result, usage) == [raised |-> FALSE, result |-> result, usage |-> usage]
Raised == [raised |-> TRUE, result |-> <<>>, usage |-> NoUsage]

analyze_documents(outcome, response_text, usage_metadata, exc) ==
  IF outcome = "configure" THEN Raised
  ELSE IF outcome = "ok" THEN Returned(response_text, usage_metadata)
  ELSE Returned(ErrPrefix \o exc, NoUsage)

\* the record kept of one invocation of analyze_documents
Call(key, prompt, is_checklist, outcome, ret) ==
  [api_key |-> key, prompt |-> prompt, is_checklist |-> is_checklist,
   outcome |-> outcome, ret |-> ret]

\* ---- extract_company_name: re.search(r"Company name:\s*(.+)", text, re.IGNORECASE)
Label == <<"c","o","m","p","a","n","y"," ","n","a","m","e",":">>

\* the label matches at position i, ignoring case
label_at(t, i) ==
  /\ i + Len(Label) - 1 <= Len(t)
  /\ \A j \in 1..Len(Label) : lower(t[i + j - 1]) = Label[j]

\* length of the run of whitespace starting at position e
RECURSIVE ws_run(_, _)
ws_run(t, e) ==
  IF e <= Len(t) /\ t[e] \in Whitespace THEN 1 + ws_run(t, e + 1) ELSE 0

\* last position of the run of non-newline characters starting at position b
RECURSIVE line_end(_, _)
line_end(t, b) ==
  IF b + 1 <= Len(t) /\ t[b + 1] # NL THEN line_end(t, b + 1) ELSE b

\* the starts the group (.+) can take after the label ending before e:
\* \s* gives back whitespace until one character other than a newline follows
group_starts(t, e) ==
  { b \in e..(e + ws_run(t, e)) : b <= Len(t) /\ t[b] # NL }

Max(S) == CHOOSE x \in S : \A y \in S : y <= x
Min(S) == CHOOSE x \in S : \A y \in S : x <= y

\* the positions where the whole pattern matches
match_positions(t) ==
  { i \in 1..Len(t) : label_at(t, i) /\ group_starts(t, i + Len(Label)) # {} }

\* match.group(1) of the leftmost match, \s* greedy
group1(t) ==
  LET i == Min(match_positions(t))
      b == Max(group_starts(t, i + Len(Label)))
  IN SubSeq(t, b, line_end(t, b))

DefaultCompany == <<"C","o","m","p","a","n","y">>

extract_company_name(t) ==
  IF match_positions(t) # {}
  THEN strip(strip(group1(t), Whitespace), {"[", "]"})
  ELSE DefaultCompany

\* ---- safe_company_name and the download file name
RECURSIVE keep_safe(_)
keep_safe(s) ==
  IF s = <<>> THEN <<>>
  ELSE IF isalnum(Head(s)) \/ Head(s) \in {" ", "-", "_"}
       THEN <<Head(s)>> \o keep_safe(Tail(s))
       ELSE keep_safe(Tail(s))

replace_spaces(s) == [i \in 1..Len(s) |-> IF s[i] = " " THEN "_" ELSE s[i]]

safe_company_name(name) == replace_spaces(strip(keep_safe(name), Whitespace))

FilePrefix == "checklist_"
FileSuffix == ".txt"
checklist_filename(name) == <<FilePrefix>> \o safe_company_name(name) \o <<FileSuffix>>

\* ---- display_cost_stats.  Costs are exact, in units of 10^-7 dollar:
\* ---- (n / 1_000_000) * 0.3 dollar = 3 n units, (n / 1_000_000) * 2.5 dollar = 25 n units
InputUnitsPerToken == 3        \* 0.3 dollar per million tokens
OutputUnitsPerToken == 25      \* 2.5 dollar per million tokens

input_cost(prompt_count) == prompt_count * InputUnitsPerToken
output_cost(candidates_count) == candidates_count * OutputUnitsPerToken
\* the prices taken the other way round
total_cost_swapped(usage_metadata) ==
  output_cost(usage_metadata.prompt_token_count)
  + input_cost(usage_metadata.candidates_token_count)

total_cost(usage_metadata) ==
  input_cost(usage_metadata.prompt_token_count)
  + output_cost(usage_metadata.candidates_token_count)

\* ---- Python floats.  A natural number of any size is the sequence of its
\* ---- digits in base 2^15, lowest first, <<>> for 0.
LimbBase == 32768

RECURSIVE big(_)
big(n) == IF n = 0 THEN <<>> ELSE <<n % LimbBase>> \o big(n \div LimbBase)

RECURSIVE big_norm(_)
big_norm(a) ==
  IF a # <<>> /\ a[Len(a)] = 0 THEN big_norm(SubSeq(a, 1, Len(a) - 1)) ELSE a

RECURSIVE big_int(_)
big_int(a) == IF a = <<>> THEN 0 ELSE Head(a) + LimbBase * big_int(Tail(a))

RECURSIVE big_add_carry(_, _, _)
big_add_carry(a, b, carry) ==
  IF a = <<>> /\ b = <<>> THEN (IF carry = 0 THEN <<>> ELSE <<carry>>)
  ELSE LET x == IF a = <<>> THEN 0 ELSE Head(a)
           y == IF b = <<>> THEN 0 ELSE Head(b)
           sum == x + y + carry
       IN <<sum % LimbBase>>
          \o big_add_carry(IF a = <<>> THEN a ELSE Tail(a),
                           IF b = <<>> THEN b ELSE Tail(b), sum \div LimbBase)
big_add(a, b) == big_add_carry(a, b, 0)

\* a times k, for 0 <= k < 2^15
RECURSIVE big_mul_small(_, _, _)
big_mul_small(a, k, carry) ==
  IF a = <<>> THEN (IF carry = 0 THEN <<>> ELSE <<carry>>)
  ELSE LET prod == Head(a) * k + carry
       IN <<prod % LimbBase>> \o big_mul_small(Tail(a), k, prod \div LimbBase)

RECURSIVE big_mul(_, _)
big_mul(a, b) ==
  IF b = <<>> \/ a = <<>> THEN <<>>
  ELSE big_norm(big_add(big_mul_small(a, Head(b), 0), <<0>> \o big_mul(a, Tail(b))))

\* the quotient and the remainder of a by d, for 0 < d <= 2^15
RECURSIVE big_divmod_small(_, _)
big_divmod_small(a, d) ==
  IF a = <<>> THEN [q |-> <<>>, r |-> 0]
  ELSE LET high == big_divmod_small(Tail(a), d)
           x == high.r * LimbBase + Head(a)
       IN [q |-> big_norm(<<x \div d>> \o high.q), r |-> x % d]

RECURSIVE pow2(_)
pow2(k) == IF k = 0 THEN 1 ELSE 2 * pow2(k - 1)

RECURSIVE zero_limbs(_)
zero_limbs(w) == IF w = 0 THEN <<>> ELSE <<0>> \o zero_limbs(w - 1)

\* a * 2^s and floor(a / 2^s)
big_shl(a, s) ==
  IF a = <<>> THEN <<>>
  ELSE zero_limbs(s \div 15) \o big_mul_small(a, pow2(s % 15), 0)
big_shr(a, s) ==
  IF s \div 15 >= Len(a) THEN <<>>
  ELSE big_divmod_small(SubSeq(a, s \div 15 + 1, Len(a)), pow2(s % 15)).q

RECURSIVE bits(_)
bits(n) == IF n = 0 THEN 0 ELSE 1 + bits(n \div 2)
big_bits(a) == IF a = <<>> THEN 0 ELSE 15 * (Len(a) - 1) + bits(a[Len(a)])

big_odd(a) == a # <<>> /\ Head(a) % 2 = 1

\* floor(a / 2^s) rounded to nearest, a half to even; lost: a non-zero
\* part was dropped below a already
round_shr(a, s, lost) ==
  IF s = 0 THEN a
  ELSE LET q1 == big_shr(a, s - 1)
           q == big_shr(q1, 1)
           sticky == lost \/ big_shl(q1, s - 1) # a
       IN IF big_odd(q1) /\ (sticky \/ big_odd(q)) THEN big_add(q, <<1>>) ELSE q

\* ---- a float is m * 2^e with 2^52 <= m < 2^53, or zero
Float(m, e) == [m |-> m, e |-> e]
FloatZero == Float(<<>>, 0)

\* the float nearest to a * 2^e
fl(a, e, lost) ==
  IF a = <<>> THEN FloatZero
  ELSE IF big_bits(a) <= 53
  THEN Float(big_shl(a, 53 - big_bits(a)), e - (53 - big_bits(a)))
  ELSE LET s == big_bits(a) - 53
           m == round_shr(a, s, lost)
       IN IF big_bits(m) = 54 THEN Float(big_shr(m, 1), e + s + 1) ELSE Float(m, e + s)

\* count / 1_000_000 = count * 2^74 / 15625 * 2^-80
float_per_million(count) ==
  LET d == big_divmod_small(big_shl(big(count), 74), 15625)
  IN fl(d.q, -80, d.r # 0)

float_mul(x, y) == fl(big_mul(x.m, y.m), x.e + y.e, FALSE)

float_add(x, y) ==
  IF x.m = <<>> THEN y
  ELSE IF y.m = <<>> THEN x
  ELSE LET e == IF x.e < y.e THEN x.e ELSE y.e
       IN fl(big_add(big_shl(x.m, x.e - e), big_shl(y.m, y.e - e)), e, FALSE)

InputPrice == Float(<<13107, 26214, 19660, 153>>, -54)       \* 0.3
OutputPrice == Float(big_shl(big(5), 50), -51)                     \* 2.5

\* total_cost as the float the code computes
float_total_cost(usage_metadata) ==
  float_add(float_mul(float_per_million(usage_metadata.prompt_token_count), InputPrice),
            float_mul(float_per_million(usage_metadata.candidates_token_count), OutputPrice))

\* f"{total_cost:.6f}": the float to six decimals, in units (a multiple of 10)
format_cost(x) ==
  LET micro == big_mul(x.m, big(1000000))
  IN 10 * big_int(IF x.e >= 0 THEN big_shl(micro, x.e) ELSE round_shr(micro, -x.e, FALSE))

\* "not usage_metadata": None, or a usage message with no field set
falsy_usage(u) ==
  u.is_none \/ (u.prompt_token_count = 0 /\ u.candidates_token_count = 0
                /\ u.total_token_count = 0)

display_cost_stats(usage_metadata) ==
  IF falsy_usage(usage_metadata) THEN <<>>
  ELSE << [total_count |-> usage_metadata.total_token_count,
           prompt_count |-> usage_metadata.prompt_token_count,
           candidates_count |-> usage_metadata.candidates_token_count,
           total_cost |-> total_cost(usage_metadata),
           shown_cost |-> format_cost(float_total_cost(usage_metadata))] >>

\* ---- what the service can answer
CompanyLine == <<"C","o","m","p","a","n","y"," ","n","a","m","e",":"," ","[","A","]">>
TemplateAnswers == { <<"R">> }
ChecklistAnswers == { <<"R">>, CompanyLine }

\* ---- inputs of one script run
UserKeys == {"", "user-key"}
SecretKeys == {None, "", "secret-key"}      \* None: no GOOGLE_API_KEY entry in st.secrets
EnvKeys == {None, "env-key"}                \* None: GOOGLE_API_KEY not in the environment

\* "not x" for an optional string
falsy(x) == x = None \/ x = ""

\* ---- sidebar: the system key and the key used for the run
resolve_system_key(secret, env) == IF secret # None THEN secret ELSE env

\* the system key taken first
resolve_api_key_system_first(user, system) ==
  IF ~falsy(system) THEN system
  ELSE IF ~falsy(user) THEN user
  ELSE None

resolve_api_key(user, system) ==
  IF ~falsy(user) THEN user
  ELSE IF ~falsy(system) THEN system
  ELSE None

CliIdle ==
  /\ cli_pc = "off" /\ cli_env = None /\ template_path = None /\ doc_paths = <<>>
  /\ output_path = None /\ valid_docs = <<>> /\ fs = <<>> /\ out = <<>>
  /\ cli_prompt = <<>> /\ cli_calls = <<>> /\ cli_reads = <<>> /\ crashed = FALSE

NameIdle ==
  /\ name_pc = "off" /\ text = <<>> /\ company_name = <<>> /\ filename = <<>>

AppIdle ==
  /\ pc = "off" /\ secrets = None /\ env_key = None /\ user_api_key = ""
  /\ system_api_key = None /\ api_key = None
  /\ template_file = NoFile /\ checklist_file = NoFile /\ doc_files = <<>>
  /\ docs_contents = <<>> /\ ui = <<>> /\ stats = <<>> /\ calls = <<>> /\ reads = <<>>

AppInit ==
  /\ pc = "sidebar"
  /\ secrets \in SecretKeys
  /\ env_key \in EnvKeys
  /\ user_api_key \in UserKeys
  /\ system_api_key = None
  /\ api_key = None
  /\ template_file \in TemplatePool
  /\ checklist_file \in ChecklistPool
  /\ doc_files \in SeqsUpTo(DocPool, MaxDocs)
  /\ docs_contents = <<>>
  /\ ui = <<>>
  /\ stats = <<>>
  /\ calls = <<>>
  /\ reads = <<>>

\* app.py 188-227: the sidebar resolves the key
RenderSidebar ==
  /\ pc = "sidebar"
  /\ system_api_key' = resolve_system_key(secrets, env_key)
  /\ api_key' = resolve_api_key(user_api_key, system_api_key')
  /\ ui' = Append(ui, IF ~falsy(system_api_key')
                      THEN Msg("success", <<"System API Key loaded">>)
                      ELSE Msg("warning", <<"No System API Key found">>))
  /\ pc' = "main"
  /\ UNCHANGED <<secrets, env_key, user_api_key, template_file, checklist_file,
                 doc_files, docs_contents, stats, calls, reads>>
  /\ UNCHANGED <<cli_vars, name_vars>>

\* app.py 269-271, 345-348: the script runs without a click on Analyze
NoClick ==
  /\ pc = "main"
  /\ ui' = IF template_file = NoFile /\ checklist_file = NoFile /\ doc_files = <<>>
           THEN Append(ui, Msg("info", <<"Results will appear here after analysis.">>))
           ELSE ui
  /\ pc' = "done"
  /\ UNCHANGED <<secrets, env_key, user_api_key, system_api_key, api_key,
                 template_file, checklist_file, doc_files, docs_contents, stats, calls, reads>>
  /\ UNCHANGED <<cli_vars, name_vars>>

\* app.py 271-290: the click on Analyze, up to the documents being read
ClickAnalyze ==
  /\ pc = "main"
  /\ IF falsy(api_key)
     THEN /\ ui' = Append(ui, Msg("error", <<"Please provide a Google API Key in the settings sidebar.">>))
          /\ pc' = "done"
          /\ UNCHANGED <<docs_contents, reads>>
     ELSE IF template_file = NoFile /\ checklist_file = NoFile
     THEN /\ ui' = Append(ui, Msg("warning", <<"Please upload at least one template or checklist file.">>))
          /\ pc' = "done"
          /\ UNCHANGED <<docs_contents, reads>>
     ELSE IF doc_files = <<>>
     THEN /\ ui' = Append(ui, Msg("warning", <<"Please upload at least one document.">>))
          /\ pc' = "done"
          /\ UNCHANGED <<docs_contents, reads>>
     ELSE /\ docs_contents' = read_docs(doc_files, <<>>)
          /\ reads' = reads \o [i \in 1..Len(doc_files) |-> doc_files[i].name]
          /\ IF docs_contents' = <<>>
             THEN /\ ui' = ui \o read_docs_errors(doc_files)
                             \o <<Msg("error", <<"Could not read any document content.">>)>>
                  /\ pc' = "done"        \* st.stop()
             ELSE /\ ui' = ui \o read_docs_errors(doc_files)
                  /\ pc' = "template"
  /\ UNCHANGED <<secrets, env_key, user_api_key, system_api_key, api_key,
                 template_file, checklist_file, doc_files, stats, calls>>
  /\ UNCHANGED <<cli_vars, name_vars>>

\* what the handler shows for the analysis report
template_elements(result) ==
  << Msg("success", <<"Analysis Report Ready">>),
     Msg("subheader", <<"Analysis Output">>),
     Msg("code", result),
     Elem("download", result, <<"analysis_result.txt">>) >>

\* what the handler shows for the checklist
checklist_elements(result) ==
  << Msg("success", <<"Checklist Ready (">> \o extract_company_name(result) \o <<")">>),
     Msg("subheader", <<"Checklist Output">>),
     Msg("code", result),
     Elem("download", result, checklist_filename(extract_company_name(result))) >>

OuterExcept == Msg("error", <<"An error occurred reading the files: ", "e">>)

\* app.py 292-312: the template step
ProcessTemplate ==
  /\ pc = "template"
  /\ IF template_file = NoFile
     THEN /\ pc' = "checklist"
          /\ UNCHANGED <<ui, stats, calls, reads>>
     ELSE IF ~truthy(read_file_content(template_file))
     THEN /\ reads' = Append(reads, template_file.name)
          /\ ui' = ui \o read_file_errors(template_file)
                      \o <<Msg("error", <<"Could not read template content.">>)>>
          /\ pc' = "checklist"
          /\ UNCHANGED <<stats, calls>>
     ELSE \E outcome \in Outcomes, answer \in TemplateAnswers,
             usage \in UsagePool, exc \in ExcMessages :
            LET template_content == read_file_content(template_file).txt
                ret == analyze_documents(outcome, answer, usage, exc)
                shown == ui \o <<Msg("info", <<"Generating Analysis Report...">>)>>
            IN /\ reads' = Append(reads, template_file.name)
               /\ calls' = Append(calls, Call(api_key,
                                 build_prompt(template_content, docs_contents, FALSE),
                                 FALSE, outcome, ret))
               /\ IF ret.raised
                  THEN /\ ui' = Append(shown, OuterExcept)
                       /\ pc' = "done"
                       /\ UNCHANGED stats
                  ELSE /\ stats' = stats \o display_cost_stats(ret.usage)
                       /\ ui' = shown \o template_elements(ret.result)
                       /\ pc' = "checklist"
  /\ UNCHANGED <<secrets, env_key, user_api_key, system_api_key, api_key,
                 template_file, checklist_file, doc_files, docs_contents>>
  /\ UNCHANGED <<cli_vars, name_vars>>

\* app.py 314-343: the checklist step
ProcessChecklist ==
  /\ pc = "checklist"
  /\ pc' = "done"
  /\ IF checklist_file = NoFile
     THEN UNCHANGED <<ui, stats, calls, reads>>
     ELSE IF ~truthy(read_file_content(checklist_file))
     THEN /\ reads' = Append(reads, checklist_file.name)
          /\ ui' = ui \o read_file_errors(checklist_file)
                      \o <<Msg("error", <<"Could not read checklist content.">>)>>
          /\ UNCHANGED <<stats, calls>>
     ELSE \E outcome \in Outcomes, answer \in ChecklistAnswers,
             usage \in UsagePool, exc \in ExcMessages :
            LET checklist_content == read_file_content(checklist_file).txt
                ret == analyze_documents(outcome, answer, usage, exc)
                shown == ui \o <<Msg("info", <<"Processing Checklist...">>)>>
            IN /\ reads' = Append(reads, checklist_file.name)
               /\ calls' = Append(calls, Call(api_key,
                                 build_prompt(checklist_content, docs_contents, TRUE),
                                 TRUE, outcome, ret))
               /\ IF ret.raised
                  THEN /\ ui' = Append(shown, OuterExcept)
                       /\ UNCHANGED stats
                  ELSE /\ stats' = stats \o display_cost_stats(ret.usage)
                       /\ ui' = shown \o checklist_elements(ret.result)
  /\ UNCHANGED <<secrets, env_key, user_api_key, system_api_key, api_key,
                 template_file, checklist_file, doc_files, docs_contents>>
  /\ UNCHANGED <<cli_vars, name_vars>>

\* ======================================================================
\*                  src/analyze_docs.py : the console script
\* ======================================================================

\* ---- the file system: exists = os.path.exists, ok = FALSE: open/read raises
File(exists, ok, data) == [exists |-> exists, ok |-> ok, data |-> data]
Missing == File(FALSE, FALSE, <<>>)

TemplatePaths == {"t.txt", "tbad.txt", "nt.txt"}
DocPaths == {"a.txt", "b.txt", "e.txt", "bin.dat", "missing.txt"}
OutputPaths == {"", "out.txt", "old.txt"}
Paths == TemplatePaths \cup DocPaths \cup OutputPaths

FS0 ==
  [p \in Paths |->
     CASE p = "t.txt" -> File(TRUE, TRUE, <<"T">>)
       [] p = "tbad.txt" -> File(TRUE, FALSE, <<>>)
       [] p = "a.txt" -> File(TRUE, TRUE, <<"X">>)
       [] p = "b.txt" -> File(TRUE, TRUE, <<"Y">>)
       [] p = "e.txt" -> File(TRUE, TRUE, <<>>)
       [] p = "bin.dat" -> File(TRUE, FALSE, <<>>)
       [] p = "old.txt" -> File(TRUE, TRUE, <<"O">>)
       [] OTHER -> Missing]

Line(kind, body) == [kind |-> kind, body |-> body]

\* analyze_docs.py 29-34: the paths that exist, in order
RECURSIVE existing(_, _)
existing(files, paths) ==
  IF paths = <<>> THEN <<>>
  ELSE (IF files[Head(paths)].exists THEN <<Head(paths)>> ELSE <<>>)
       \o existing(files, Tail(paths))

RECURSIVE not_found_warnings(_, _)
not_found_warnings(files, paths) ==
  IF paths = <<>> THEN <<>>
  ELSE (IF files[Head(paths)].exists THEN <<>>
        ELSE <<Line("warning", <<"Warning: Document '", Head(paths), "' not found. Skipping.">>)>>)
       \o not_found_warnings(files, Tail(paths))

\* analyze_docs.py 53-59: the document blocks, idx counted from 0
CliDocOpen == "\n--- Document "
RECURSIVE docs_content(_, _, _)
docs_content(files, docs, idx) ==
  IF docs = <<>> THEN <<>>
  ELSE <<CliDocOpen, ToString(idx + 1), " (", Head(docs), DocClose>>
       \o files[Head(docs)].data \o <<NL>>
       \o docs_content(files, Tail(docs), idx + 1)

\* the first document whose open/read raises, 0 if none
first_unreadable(files, docs) ==
  IF \E i \in 1..Len(docs) : ~files[docs[i]].ok
  THEN Min({i \in 1..Len(docs) : ~files[docs[i]].ok})
  ELSE 0

CliPreamble == "\n    You are a helpful assistant that analyzes documents based on a specific template.\n\n    Here is the template you must follow for the output:\n    "
CliClosing == "\n\n    Please analyze the documents and produce an output that strictly follows the format and structure of the provided template.\n    "

cli_build_prompt(template_content, docs) ==
  <<CliPreamble>> \o template_content \o <<DocsLabel>> \o docs \o <<CliClosing>>

CliInit ==
  /\ cli_pc = "start"
  /\ cli_env \in {None, "", "env-key"}
  /\ template_path \in TemplatePaths
  /\ doc_paths \in (SeqsUpTo(DocPaths, MaxPaths) \ {<<>>})
  /\ output_path \in OutputPaths
  /\ valid_docs = <<>>
  /\ fs = FS0
  /\ out = <<>>
  /\ cli_prompt = <<>>
  /\ cli_calls = <<>>
  /\ cli_reads = <<>>
  /\ crashed = FALSE

\* analyze_docs.py 9-19: the key check and genai.configure
CliStart ==
  /\ cli_pc = "start"
  /\ IF falsy(cli_env)
     THEN /\ out' = Append(out, Line("error", <<"Error: GOOGLE_API_KEY not found in environment variables.">>))
          /\ cli_pc' = "done"
          /\ UNCHANGED crashed
     ELSE \E configure_raises \in BOOLEAN :
            IF configure_raises
            THEN /\ crashed' = TRUE
                 /\ cli_pc' = "done"
                 /\ UNCHANGED out
            ELSE /\ out' = Append(out, Line("info", <<"--- Gemini Document Analyzer ---">>))
                 /\ cli_pc' = "inputs"
                 /\ UNCHANGED crashed
  /\ UNCHANGED <<cli_env, template_path, doc_paths, output_path, valid_docs, fs,
                 cli_prompt, cli_calls, cli_reads>>
  /\ UNCHANGED <<app_vars, name_vars>>

\* analyze_docs.py 21-77: the inputs, the reading and the prompt
CliInputs ==
  /\ cli_pc = "inputs"
  /\ LET found == existing(fs, doc_paths)
         warned == out \o not_found_warnings(fs, doc_paths)
         bad == first_unreadable(fs, found)
     IN IF ~fs[template_path].exists
        THEN /\ out' = Append(out, Line("error", <<"Error: Template file '", template_path, "' not found.">>))
             /\ cli_pc' = "done"
             /\ UNCHANGED <<valid_docs, cli_prompt, cli_reads>>
        ELSE IF found = <<>>
        THEN /\ out' = Append(warned, Line("error", <<"Error: No valid documents provided.">>))
             /\ valid_docs' = found
             /\ cli_pc' = "done"
             /\ UNCHANGED <<cli_prompt, cli_reads>>
        ELSE IF falsy(output_path)
        THEN /\ out' = Append(warned, Line("error", <<"Error: Output path cannot be empty.">>))
             /\ valid_docs' = found
             /\ cli_pc' = "done"
             /\ UNCHANGED <<cli_prompt, cli_reads>>
        ELSE IF ~fs[template_path].ok
        THEN /\ out' = Append(warned, Line("error", <<"Error reading template file: ", "e">>))
             /\ valid_docs' = found
             /\ cli_reads' = Append(cli_reads, template_path)
             /\ cli_pc' = "done"
             /\ UNCHANGED cli_prompt
        ELSE IF bad # 0
        THEN /\ out' = Append(warned, Line("error", <<"Error reading document '", found[bad], "': ", "e">>))
             /\ valid_docs' = found
             /\ cli_reads' = Append(cli_reads, template_path) \o SubSeq(found, 1, bad)
             /\ cli_pc' = "done"
             /\ UNCHANGED cli_prompt
        ELSE /\ out' = Append(warned, Line("info", <<"\nAnalyzing documents with Gemini...">>))
             /\ valid_docs' = found
             /\ cli_reads' = Append(cli_reads, template_path) \o found
             /\ cli_prompt' = cli_build_prompt(fs[template_path].data, docs_content(fs, found, 0))
             /\ cli_pc' = "analyze"
  /\ UNCHANGED <<cli_env, template_path, doc_paths, output_path, fs, cli_calls, crashed>>
  /\ UNCHANGED <<app_vars, name_vars>>

\* analyze_docs.py 79-89: the service call and the output file
CliOutcomes == {"model", "generate", "text", "ok"}

CliAnalyze ==
  /\ cli_pc = "analyze"
  /\ cli_pc' = "done"
  /\ \E outcome \in CliOutcomes, answer \in TemplateAnswers :
       /\ cli_calls' = Append(cli_calls, [api_key |-> cli_env, prompt |-> cli_prompt,
                                           outcome |-> outcome])
       /\ IF outcome \in {"model", "generate"}
          THEN /\ out' = Append(out, Line("error", <<"An error occurred during analysis: ", "e">>))
               /\ UNCHANGED fs
          ELSE IF outcome = "text"
          THEN \* open(output_path, 'w') has run when response.text raises
               /\ fs' = [fs EXCEPT ![output_path] = File(TRUE, TRUE, <<>>)]
               /\ out' = Append(out, Line("error", <<"An error occurred during analysis: ", "e">>))
          ELSE /\ fs' = [fs EXCEPT ![output_path] = File(TRUE, TRUE, answer)]
               /\ out' = Append(out, Line("success", <<"\nAnalysis complete! Output saved to '", output_path, "'.">>))
  /\ UNCHANGED <<cli_env, template_path, doc_paths, output_path, valid_docs,
                 cli_prompt, cli_reads, crashed>>
  /\ UNCHANGED <<app_vars, name_vars>>


\* ======================================================================
\*      app.py 323-327 on its own: the file name of a checklist result
\* ======================================================================

UpperLabel == <<"C","O","M","P","A","N","Y"," ","N","A","M","E",":">>
AcmeLine == <<"C","o","m","p","a","n","y"," ","n","a","m","e",":"," ",
              "A","c","m","e",","," ","I","n","c","."," ",
              "[","C","o","n","f","i","d","e","n","t","i","a","l","]">>
AcmeName == <<"A","c","m","e","_","I","n","c","_",
              "C","o","n","f","i","d","e","n","t","i","a","l">>

Segments == { SubSeq(CompanyLine, 1, 13), UpperLabel,
              <<" ">>, <<NL>>, <<"[">>, <<"]">>, <<"A">>, <<",">>, <<"-">>,
              <<" ">>, <<"é">> }

ResultTexts == { Flatten(ss) : ss \in SeqsUpTo(Segments, MaxSegs) } \cup {AcmeLine}

NameInit ==
  /\ name_pc = "result"
  /\ text \in ResultTexts
  /\ company_name = <<>>
  /\ filename = <<>>

\* app.py 324-327
DeriveFilename ==
  /\ name_pc = "result"
  /\ company_name' = extract_company_name(text)
  /\ filename' = checklist_filename(company_name')
  /\ name_pc' = "named"
  /\ UNCHANGED text
  /\ UNCHANGED <<app_vars, cli_vars>>


\* ======================================================================
\* One behaviour is one run of the front end, or one run of the console
\* script, or one file name derivation.
\* ======================================================================
Init ==
  \/ AppInit /\ CliIdle /\ NameIdle
  \/ AppIdle /\ CliInit /\ NameIdle
  \/ AppIdle /\ CliIdle /\ NameInit

Next ==
  \/ RenderSidebar
  \/ NoClick
  \/ ClickAnalyze
  \/ ProcessTemplate
  \/ ProcessChecklist
  \/ CliStart
  \/ CliInputs
  \/ CliAnalyze
  \/ DeriveFilename

Spec == Init /\ [][Next]_vars

\* ======================================================================
\*                              properties
\* ======================================================================

Absent(k) == k \in {None, ""}
Range(q) == {q[i] : i \in 1..Len(q)}

\* the run of the front end got past the checks of the click on Analyze
DocsWereRead == reads # <<>>

\* ---- reading a prompt back: the document blocks it contains
Openers == {DocOpen, CliDocOpen}
Closers == Openers \cup {Closing, CliClosing}

RECURSIVE next_at(_, _, _)
next_at(q, i, S) == IF i > Len(q) \/ q[i] \in S THEN i ELSE next_at(q, i + 1, S)

\* the delimiter line that opens at position i, and the text under it
delimiter_line(q, i) == SubSeq(q, i, next_at(q, i, {DocClose}))
block_text(q, i) == SubSeq(q, next_at(q, i, {DocClose}) + 1, next_at(q, i + 1, Closers) - 2)

RECURSIVE opener_positions(_, _)
opener_positions(q, i) ==
  IF i > Len(q) THEN <<>>
  ELSE (IF q[i] \in Openers THEN <<i>> ELSE <<>>) \o opener_positions(q, i + 1)

delimiter_lines(q) ==
  LET at == opener_positions(q, 1) IN [k \in 1..Len(at) |-> delimiter_line(q, at[k])]
block_texts(q) ==
  LET at == opener_positions(q, 1) IN [k \in 1..Len(at) |-> block_text(q, at[k])]

\* the instruction text embedded in a prompt of the front end
embedded_instruction(q) ==
  SubSeq(q, next_at(q, 1, {InstructionLabel}) + 1, next_at(q, 1, {DocsLabel}) - 1)

RECURSIVE select(_, _)
select(q, S) ==
  IF q = <<>> THEN <<>>
  ELSE (IF Head(q) \in S THEN <<Head(q)>> ELSE <<>>) \o select(Tail(q), S)

\* ---------------------------------------------------------------- C1
\* C1: whenever the service fails at any step of a call of analyze_documents
\* (configure, model creation, generation, reading the text), the call
\* returns a non-empty error text with usage None and raises nothing.
C1_NoFailureEscapes ==
  \A i \in 1..Len(calls) :
    calls[i].outcome \in FailSteps =>
      /\ ~calls[i].ret.raised
      /\ calls[i].ret.result # <<>>
      /\ calls[i].ret.usage.is_none

\* ---------------------------------------------------------------- C2
CliReadable(p) == FS0[p].exists /\ FS0[p].ok
UiReadable(f) == f.ok /\ read_file_content(f).txt # <<>>

\* C2: in both variants a document that cannot be read is skipped and the
\* run goes on to the analysis call with the other documents in their
\* order; the run stops for want of documents only when none is valid.
C2_BatchSkip ==
  /\ ( /\ cli_pc = "done" /\ ~crashed /\ ~Absent(cli_env)
       /\ CliReadable(template_path) /\ ~Absent(output_path)
       /\ \E i \in 1..Len(doc_paths) : CliReadable(doc_paths[i]) )
     => /\ Len(cli_calls) = 1
        /\ LET lines == delimiter_lines(cli_calls[1].prompt)
               kept == select(doc_paths, {p \in DocPaths : CliReadable(p)})
           IN /\ Len(lines) = Len(kept)
              /\ \A k \in 1..Len(kept) : kept[k] \in Range(lines[k])
  /\ ( /\ pc \in {"template", "checklist", "done"} /\ DocsWereRead
       /\ \E i \in 1..Len(doc_files) : UiReadable(doc_files[i]) )
     => /\ docs_contents # <<>>
        /\ Msg("error", <<"Could not read any document content.">>) \notin Range(ui)

\* ---------------------------------------------------------------- C3
NumberedLines(q) ==
  LET lines == delimiter_lines(q)
  IN \A k \in 1..Len(lines) : ToString(k) \in Range(lines[k])

\* C3: in the prompt of either entry point the k-th delimiter line carries
\* the number k and the name of the k-th document.
C3_NumberedDelimiters ==
  /\ \A i \in 1..Len(cli_calls) :
       /\ NumberedLines(cli_calls[i].prompt)
       /\ \A k \in 1..Len(valid_docs) :
            valid_docs[k] \in Range(delimiter_lines(cli_calls[i].prompt)[k])
  /\ \A i \in 1..Len(calls) :
       /\ NumberedLines(calls[i].prompt)
       /\ \A k \in 1..Len(docs_contents) :
            docs_contents[k].key \in Range(delimiter_lines(calls[i].prompt)[k])

\* ---------------------------------------------------------------- C4
\* the uploads that read_file_content reads without failure, in upload order
SuccessfullyRead == select(doc_files, {f \in DocPool : f.ok})

\* C4: the prompt of the front end embeds the instruction text once, before
\* the blocks, and has exactly one block per successfully read document,
\* with its name and its unmodified text, in upload order.
C4_PromptLayout ==
  \A i \in 1..Len(calls) :
    LET q == calls[i].prompt
        instruction == IF calls[i].is_checklist THEN checklist_file ELSE template_file
        lines == delimiter_lines(q)
        texts == block_texts(q)
    IN /\ embedded_instruction(q) = read_file_content(instruction).txt
       /\ next_at(q, 1, {DocsLabel}) < next_at(q, 1, Openers)
       /\ Len(lines) = Len(SuccessfullyRead)
       /\ \A k \in 1..Len(lines) :
            /\ SuccessfullyRead[k].name \in Range(lines[k])
            /\ texts[k] = read_file_content(SuccessfullyRead[k]).txt

\* ---------------------------------------------------------------- C5
MissingKeyBanner == Msg("error", <<"Please provide a Google API Key in the settings sidebar.">>)
MissingKeyLine == Line("error", <<"Error: GOOGLE_API_KEY not found in environment variables.">>)

\* C5: the key is the non-empty override, else the non-empty system key
\* (secret store entry, else environment), else absent; with an absent key
\* the click on Analyze, or the start of the console script, reports the
\* missing credential, reads no file and calls no service; no call carries
\* an empty or absent key.
C5_KeyPrecedence ==
  /\ [] /\ pc \notin {"off", "sidebar"} =>
            /\ system_api_key = (IF secrets # None THEN secrets ELSE env_key)
            /\ ~Absent(user_api_key) => api_key = user_api_key
            /\ Absent(user_api_key) /\ ~Absent(system_api_key) => api_key = system_api_key
            /\ Absent(user_api_key) /\ Absent(system_api_key) => api_key = None
        /\ \A i \in 1..Len(calls) : ~Absent(calls[i].api_key) /\ calls[i].api_key = api_key
        /\ Absent(api_key) => reads = <<>> /\ calls = <<>>
        /\ \A i \in 1..Len(cli_calls) : ~Absent(cli_calls[i].api_key)
        /\ Absent(cli_env) => cli_reads = <<>> /\ cli_calls = <<>>
        /\ Absent(cli_env) /\ cli_pc = "done" => out = <<MissingKeyLine>>
  /\ [][ClickAnalyze /\ Absent(api_key) =>
          ui' = Append(ui, MissingKeyBanner) /\ pc' = "done"]_vars

C5_Witness ==
  /\ pc = "done"
  /\ user_api_key = "user-key" /\ secrets = "secret-key"
  /\ Len(calls) = 2 /\ calls[2].api_key = "user-key"

\* ---------------------------------------------------------------- C6
BothInstructionsReadable ==
  /\ template_file # NoFile /\ truthy(read_file_content(template_file))
  /\ checklist_file # NoFile /\ truthy(read_file_content(checklist_file))

\* C6: with a readable template and a readable checklist the run issues two
\* calls, the template's then the checklist's, whatever the outcome of the
\* first, and the checklist step leaves what the template step showed.
C6_TwoIndependentCalls ==
  /\ [] ( pc = "done" /\ DocsWereRead /\ docs_contents # <<>> /\ BothInstructionsReadable
          => /\ Len(calls) = 2
             /\ ~calls[1].is_checklist /\ calls[2].is_checklist
             /\ ~calls[2].ret.raised => Msg("code", calls[2].ret.result) \in Range(ui) )
  /\ [][ProcessChecklist => SubSeq(ui', 1, Len(ui)) = ui]_vars

\* ---------------------------------------------------------------- C7
\* the name the label line gives when the field is looked for on that line only
RECURSIVE blank_run(_, _)
blank_run(t, e) ==
  IF e <= Len(t) /\ t[e] \in (Whitespace \ {NL}) THEN 1 + blank_run(t, e + 1) ELSE 0

same_line_starts(t, e) == { b \in e..(e + blank_run(t, e)) : b <= Len(t) /\ t[b] # NL }
same_line_matches(t) ==
  { i \in 1..Len(t) : label_at(t, i) /\ same_line_starts(t, i + Len(Label)) # {} }

same_line_name(t) ==
  IF same_line_matches(t) = {} THEN DefaultCompany
  ELSE LET i == Min(same_line_matches(t))
           b == Max(same_line_starts(t, i + Len(Label)))
       IN strip(strip(SubSeq(t, b, line_end(t, b)), Whitespace), {"[", "]"})

SafeChars == Letters \cup Digits \cup {"-", "_"}

\* C7: the company name is the rest of the line that carries the label,
\* stripped of whitespace and brackets, or "Company" when no line carries
\* it; the file name is "checklist_" + S + ".txt" with S made of letters,
\* digits, hyphens and underscores only.
C7_FilenameDerivation ==
  name_pc = "named" =>
    /\ company_name = same_line_name(text)
    /\ Len(filename) >= 2
    /\ Head(filename) = FilePrefix /\ filename[Len(filename)] = FileSuffix
    /\ \A k \in 2..(Len(filename) - 1) : filename[k] \in SafeChars
    /\ text = AcmeLine => filename = <<FilePrefix>> \o AcmeName \o <<FileSuffix>>

\* ---------------------------------------------------------------- C8
RECURSIVE with_usage(_)
with_usage(cs) ==
  IF cs = <<>> THEN <<>>
  ELSE (IF ~Head(cs).ret.raised /\ ~Head(cs).ret.usage.is_none
        THEN <<Head(cs).ret.usage>> ELSE <<>>) \o with_usage(Tail(cs))

\* C8: every estimate shown is 0.3 dollar per million prompt tokens plus 2.5
\* dollar per million completion tokens of one call, written with six
\* decimals, 2.8 dollar for a million of each (amounts in units of 10^-7
\* dollar); a call without usage shows no estimate at all.
C8_CostEstimate ==
  LET us == with_usage(calls)
  IN /\ Len(stats) = Len(us)
     /\ \A k \in 1..Len(stats) :
          LET exact == 3 * us[k].prompt_token_count + 25 * us[k].candidates_token_count
          IN /\ stats[k].total_cost = exact
             /\ stats[k].shown_cost % 10 = 0
             /\ stats[k].shown_cost - exact \in -5..5
             /\ (us[k].prompt_token_count = 1000000
                  /\ us[k].candidates_token_count = 1000000)
                  => stats[k].shown_cost = 28000000

C8_Witness ==
  /\ pc = "done" /\ Len(calls) = 2
  /\ calls[1].outcome = "ok" /\ calls[1].ret.usage = Usage(1000000, 1000000)
  /\ calls[2].outcome = "generate" /\ calls[2].ret.usage.is_none
  /\ Len(stats) = 1 /\ stats[1].shown_cost = 28000000

\* ---------------------------------------------------------------- C9
Mentions(m, name) == m.kind \in {"error", "warning"} /\ name \in Range(m.body)

\* C9: every document in a prompt has non-empty text, and every document
\* left out of it was left out with a warning to the user.
C9_NoSilentDrop ==
  /\ (DocsWereRead /\ docs_contents # <<>>) =>
       /\ \A k \in 1..Len(docs_contents) : docs_contents[k].value # <<>>
       /\ \A i \in 1..Len(doc_files) :
            \/ /\ \E k \in 1..Len(docs_contents) : docs_contents[k].key = doc_files[i].name
               /\ UiReadable(doc_files[i])
            \/ \E m \in Range(ui) : Mentions(m, doc_files[i].name)
  /\ \A i \in 1..Len(cli_calls) :
       /\ \A k \in 1..Len(valid_docs) : block_texts(cli_calls[i].prompt)[k] # <<>>
       /\ \A j \in 1..Len(doc_paths) :
            doc_paths[j] \in Range(valid_docs) \/ \E m \in Range(out) : Mentions(m, doc_paths[j])

\* ---------------------------------------------------------------- C10
RECURSIVE count(_, _)
count(q, S) == IF q = <<>> THEN 0 ELSE (IF Head(q) \in S THEN 1 ELSE 0) + count(Tail(q), S)

Downloads == count([k \in 1..Len(ui) |-> ui[k].kind], {"download"})
SuccessBanners == count([k \in 1..Len(ui) |-> ui[k].kind], {"success"})
         - count(ui, {Msg("success", <<"System API Key loaded">>)})
GenuineResults == count([k \in 1..Len(calls) |-> calls[k].outcome], {"ok"})

\* C10: a failed service call leaves no artifact: the console script does
\* not touch the output file and prints no success line, the front end
\* shows no success banner and no download for that instruction document.
C10_NoArtifactOnFailure ==
  /\ \A i \in 1..Len(cli_calls) :
       cli_calls[i].outcome # "ok" =>
         /\ fs = FS0
         /\ \A m \in Range(out) : m.kind # "success"
         /\ \E m \in Range(out) : m.kind = "error"
  /\ Downloads = GenuineResults
  /\ SuccessBanners = GenuineResults

====
